---------------------------- MODULE Spec2Model ----------------------------
(***************************************************************************)
(* Model of the RCON client of src/Arkrcon/arkrcon.py: the packet encoder  *)
(* (__build_packet), the incremental parser run by the reception thread    *)
(* (__reception), and the session operations connect, send_cmd,            *)
(* disconnect, set_running and is_responded, over a model of the TCP       *)
(* socket the session owns; the cluster shutdown of its __main__; and the  *)
(* backup stage of src/ServerBackup/backup.py.                             *)
(*                                                                         *)
(* Representation.  A byte is a number in 0..255.  A Python str is a       *)
(* sequence of Unicode code points.  A Python int that is written to or    *)
(* read from a 4-byte field is a pair <<hi, lo>> of 16-bit halves standing *)
(* for hi * 65536 + lo, so that the whole range [0, 2^32) is covered with  *)
(* numbers the model checker can hold.  None is the tuple <<-1>>.          *)
(***************************************************************************)
EXTENDS Integers, Sequences, FiniteSets, TLC

VARIABLES
    running,        \* self.running
    responsed_to,   \* self.__responsed_to: the ids appended by __set_responded
    sock,           \* self.__sock: 0 for None, else the index of a socket
    socks,          \* the sockets created by connect(), by index
    rx,             \* the reception thread started for each socket
    caller,         \* the caller's thread: position, calls made, last outcome
    srvlog,         \* history: the packets the server has sent on each socket
    returned,       \* history: the sockets whose connect() call has returned
    objs,           \* the list objects of the program and an earlier session
    sync,           \* the two RLocks of the session, and who last used its state
    main,           \* the cluster shutdown of __main__: position, ports left
    cloud           \* backup.py: the cloud's files and the position of a run

vars == <<running, responsed_to, sock, socks, rx, caller, srvlog, returned,
          objs, sync, main, cloud>>

(***************************************************************************)
(* Bounds of the model.                                                    *)
(***************************************************************************)
MaxBodyLen == 2        \* code points in an encoded body
MaxPackets == 2        \* packets in a preloaded stream
MaxTamper == 12        \* largest small value tried for a tampered size field
MaxConnects == 2       \* connect() calls on the session
MaxCalls == 3          \* public calls made by the caller's thread
MaxServerPackets == 2  \* packets the server sends on one connection
MaxPartial == 1        \* longest strict prefix the transport may accept in send
MaxHoldBack == 1       \* bytes a short read of the session may leave in the socket
MaxBackupLimit == 3    \* largest MAX_BACKUP of the backup configuration
MaxRuns == 3           \* runs of backup.py
MaxFolderNumber == 4   \* largest <n> of a Saved_Backup_<n> folder present at first
MaxCreatedTime == 2    \* latest creation time (in seconds) of such a folder

(***************************************************************************)
(* Program constants.                                                      *)
(***************************************************************************)
SERVERDATA_AUTH == 3
SERVERDATA_AUTH_RESPONSE == 2
SERVERDATA_EXECCOMMAND == 2
SERVERDATA_RESPONSE_VALUE == 0
AUTH_ID == 50
SAVEWORLD_ID == 60
DOEXIT_ID == 61
RECV_SIZE == 4096

None == <<-1>>

Min(a, b) == IF a < b THEN a ELSE b
Range(s) == {s[k] : k \in 1..Len(s)}
Prefix(s, n) == SubSeq(s, 1, n)
Drop(s, n) == SubSeq(s, n + 1, Len(s))

\* The Python int n (0 <= n < 2^31) as a pair of 16-bit halves.
PyInt(n) == <<n \div 65536, n % 65536>>
MaxU32 == <<65535, 65535>>

(***************************************************************************)
(* int.to_bytes(v, 4, "little", signed=False) and                          *)
(* int.from_bytes(b, "little", signed=False).                              *)
(***************************************************************************)
to_bytes(v) == <<v[2] % 256, v[2] \div 256, v[1] % 256, v[1] \div 256>>

from_bytes(b) == <<(b[4] * 256) + b[3], (b[2] * 256) + b[1]>>

(***************************************************************************)
(* bytes(s, "UTF-8"): the UTF-8 encoding of a str.                         *)
(***************************************************************************)
utf8_encode_cp(c) ==
    IF c < 128 THEN <<c>>
    ELSE IF c < 2048 THEN <<192 + (c \div 64), 128 + (c % 64)>>
    ELSE IF c < 65536
         THEN <<224 + (c \div 4096), 128 + ((c \div 64) % 64), 128 + (c % 64)>>
    ELSE <<240 + (c \div 262144), 128 + ((c \div 4096) % 64),
           128 + ((c \div 64) % 64), 128 + (c % 64)>>

RECURSIVE utf8_encode(_)
utf8_encode(s) ==
    IF s = <<>> THEN <<>>
    ELSE utf8_encode_cp(Head(s)) \o utf8_encode(Tail(s))

(***************************************************************************)
(* str(b, "UTF-8"): strict UTF-8 decoding.  The result is a record: ok is  *)
(* FALSE where Python raises UnicodeDecodeError (a stray continuation      *)
(* byte, a truncated or overlong sequence, a surrogate, a value above      *)
(* U+10FFFF).                                                              *)
(***************************************************************************)
IsCont(b) == b >= 128 /\ b <= 191

SeqLenOf(b1) ==
    IF b1 < 128 THEN 1
    ELSE IF b1 >= 194 /\ b1 <= 223 THEN 2
    ELSE IF b1 >= 224 /\ b1 <= 239 THEN 3
    ELSE IF b1 >= 240 /\ b1 <= 244 THEN 4
    ELSE 0

CodePointOf(bs, n) ==
    IF n = 1 THEN bs[1]
    ELSE IF n = 2 THEN ((bs[1] - 192) * 64) + (bs[2] - 128)
    ELSE IF n = 3
         THEN ((bs[1] - 224) * 4096) + ((bs[2] - 128) * 64) + (bs[3] - 128)
    ELSE ((bs[1] - 240) * 262144) + ((bs[2] - 128) * 4096)
         + ((bs[3] - 128) * 64) + (bs[4] - 128)

RECURSIVE utf8_decode(_)
utf8_decode(bs) ==
    IF bs = <<>> THEN [ok |-> TRUE, str |-> <<>>]
    ELSE LET n == SeqLenOf(bs[1])
             bad == [ok |-> FALSE, str |-> <<>>]
         IN  IF n = 0 \/ Len(bs) < n THEN bad
             ELSE IF \E k \in 2..n : ~IsCont(bs[k]) THEN bad
             ELSE LET cp == CodePointOf(bs, n)
                      valid == /\ (n = 3 => cp >= 2048 /\ ~(cp >= 55296 /\ cp <= 57343))
                               /\ (n = 4 => cp >= 65536 /\ cp <= 1114111)
                      rest == utf8_decode(Drop(bs, n))
                  IN  IF ~valid \/ ~rest.ok THEN bad
                      ELSE [ok |-> TRUE, str |-> <<cp>> \o rest.str]

(***************************************************************************)
(* RCON.__build_packet.                                                    *)
(***************************************************************************)
build_packet_charlen(packet_id, packet_type, packet_body) ==
    LET body == utf8_encode(packet_body)
        size == PyInt(Len(packet_body) + 10)
    IN  to_bytes(size) \o to_bytes(packet_id) \o to_bytes(packet_type)
        \o body \o <<0>> \o <<0>>

build_packet(packet_id, packet_type, packet_body) ==
    LET body == utf8_encode(packet_body)
        size == PyInt(Len(body) + 10)
    IN  to_bytes(size) \o to_bytes(packet_id) \o to_bytes(packet_type)
        \o body \o <<0>> \o <<0>>

(***************************************************************************)
(* The parser of RCON.__reception: the body of "for b in buf".             *)
(* A parser value p holds the locals state, cur_item and cur_struct, the   *)
(* packets handed to the observer and to __set_responded in this call      *)
(* (out), and whether str(..., "UTF-8") raised (err).                      *)
(***************************************************************************)
NonePacket == [size |-> None, pack_id |-> None, pack_type |-> None, body |-> None]

NewParser == [state |-> 0, cur_item |-> <<>>, cur_struct |-> NonePacket,
              out |-> <<>>, err |-> FALSE]

\* len(cur_item) < cur_struct.size - 9  and  len(cur_item) == cur_struct.size - 9
BodyLenBelow(n, size) == size[1] > 0 \/ n < size[2] - 9
BodyLenReached(n, size) == size[1] = 0 /\ n = size[2] - 9

ReadField(p, b, next, field) ==
    LET item == Append(p.cur_item, b)
    IN  IF Len(item) = 4
        THEN [p EXCEPT !.state = next,
                       !.cur_struct = [@ EXCEPT ![field] = from_bytes(item)],
                       !.cur_item = <<>>]
        ELSE [p EXCEPT !.cur_item = item]

ReadBodyEmitEarly(p, b) ==
    LET item == Append(p.cur_item, b)
    IN  IF BodyLenReached(Len(item), p.cur_struct.size)
        THEN LET d == utf8_decode(item)
             IN  IF d.ok
                 THEN [p EXCEPT !.state = 4,
                                !.cur_struct = [@ EXCEPT !.body = d.str],
                                !.cur_item = <<>>,
                                !.out = Append(@, [body |-> d.str,
                                                   pack_id |-> p.cur_struct.pack_id,
                                                   pack_type |-> p.cur_struct.pack_type])]
                 ELSE [p EXCEPT !.state = 4, !.cur_item = item, !.err = TRUE]
        ELSE [p EXCEPT !.cur_item = item]

ReadBody(p, b) ==
    LET item == Append(p.cur_item, b)
    IN  IF BodyLenReached(Len(item), p.cur_struct.size)
        THEN LET d == utf8_decode(item)
             IN  IF d.ok
                 THEN [p EXCEPT !.state = 4,
                                !.cur_struct = [@ EXCEPT !.body = d.str],
                                !.cur_item = <<>>]
                 ELSE [p EXCEPT !.state = 4, !.cur_item = item, !.err = TRUE]
        ELSE [p EXCEPT !.cur_item = item]

EmitPacketKeepState(p) ==
    [p EXCEPT !.out = Append(@, [body |-> p.cur_struct.body,
                                 pack_id |-> p.cur_struct.pack_id,
                                 pack_type |-> p.cur_struct.pack_type]),
              !.cur_struct = NonePacket]

EmitPacket(p) ==
    [p EXCEPT !.out = Append(@, [body |-> p.cur_struct.body,
                                 pack_id |-> p.cur_struct.pack_id,
                                 pack_type |-> p.cur_struct.pack_type]),
              !.cur_struct = NonePacket,
              !.state = 0]

ParseByte(p, b) ==
    IF p.state = 0 /\ Len(p.cur_item) < 4 THEN ReadField(p, b, 1, "size")
    ELSE IF p.state = 1 /\ Len(p.cur_item) < 4 THEN ReadField(p, b, 2, "pack_id")
    ELSE IF p.state = 2 /\ Len(p.cur_item) < 4 THEN ReadField(p, b, 3, "pack_type")
    ELSE IF p.state = 3 /\ BodyLenBelow(Len(p.cur_item), p.cur_struct.size)
         THEN ReadBody(p, b)
    ELSE IF p.state = 4 THEN EmitPacket(p)
    ELSE p

\* "for b in buf": the bytes of one recv, in order; an exception ends the loop.
RECURSIVE FeedBytes(_, _)
FeedBytes(p, buf) ==
    IF buf = <<>> \/ p.err THEN p
    ELSE FeedBytes(ParseByte(p, Head(buf)), Tail(buf))


(***************************************************************************)
(* RCON.__set_responded and RCON.is_responded.                             *)
(***************************************************************************)
set_responded_overwrite(r, pack_id) == <<pack_id>>
set_responded(r, pack_id) == Append(r, pack_id)

is_responded(pack_id) == pack_id \in Range(responsed_to)

\* __set_responded for each packet completed in one recv, in order.
SetRespondedFirst(r, out) ==
    IF out = <<>> THEN r ELSE set_responded(r, Head(out).pack_id)

RECURSIVE SetRespondedAll(_, _)
SetRespondedAll(r, out) ==
    IF out = <<>> THEN r
    ELSE SetRespondedAll(set_responded(r, Head(out).pack_id), Tail(out))

(***************************************************************************)
(* The socket.  fd is the Python socket object ("open" until close()),     *)
(* conn the state of the TCP connection, shut whether this end called      *)
(* shutdown(SHUT_RDWR), inbuf the bytes sent by the server and not yet     *)
(* returned by recv, sent the byte strings accepted by send, in order.     *)
(***************************************************************************)
Conns == 1..MaxConnects

NoSocket == [fd |-> "none", conn |-> "none", shut |-> FALSE,
             inbuf |-> <<>>, sent |-> <<>>]

NoThread == [pc |-> "none", state |-> 0, cur_item |-> <<>>,
             cur_struct |-> NonePacket, printed |-> <<>>, nread |-> 0,
             split |-> FALSE, disc |-> "-", eof |-> "-"]

\* send() raises: no socket object, a closed one, or a connection that is
\* shut down, was never established or was reset.
SendRaisesNoSocketOnly == sock = 0

SendRaises ==
    IF sock = 0 THEN TRUE
    ELSE ~(/\ socks[sock].fd = "open"
           /\ ~socks[sock].shut
           /\ socks[sock].conn \in {"established", "peer_fin"})

\* The number of bytes a successful send() may accept.
SendCounts(pkt) == {Len(pkt)} \cup (1..Min(MaxPartial, Len(pkt) - 1))

\* shutdown() raises: no socket object (AttributeError), a closed one (EBADF),
\* a connection never established or reset (ENOTCONN).
ShutdownRaises ==
    IF sock = 0 THEN TRUE
    ELSE ~(/\ socks[sock].fd = "open"
           /\ socks[sock].conn \notin {"unconnected", "reset"})

\* After this end's shutdown and the peer's FIN the connection reaches CLOSED
\* once the last ACK arrives; from then on shutdown() raises ENOTCONN.
ShutdownMayRaise ==
    IF sock = 0 THEN FALSE
    ELSE socks[sock].shut /\ socks[sock].conn = "peer_fin"

Outcome(op, val) == [op |-> op, val |-> val, shut |-> FALSE, closed |-> FALSE,
                     pre |-> "none", target |-> 0]

password == <<112, 119>>

(***************************************************************************)
(* The objects RCON.__init__ creates besides the fields above.             *)
(* self.__responsed_to = [] makes a list object: lists holds the list      *)
(* objects by reference, ref is the one of the session the variables       *)
(* above describe (its content is responsed_to itself), and other is a     *)
(* session constructed earlier, if any.  The two RLock objects are free or *)
(* held by a thread; access is the last use of running or of the list,     *)
(* pending the ids a reception thread has parsed and not yet appended.     *)
(***************************************************************************)
ListRefs == {1, 2}

NoOther == [made |-> FALSE, running |-> TRUE, ref |-> 0, sock |-> 0,
            socks |-> [i \in Conns |-> NoSocket]]

OneSession == [ref |-> 1, lists |-> [r \in ListRefs |-> <<>>], other |-> NoOther]

NoAccess == [var |-> "none", kind |-> "none", by |-> "none", locked |-> FALSE]

NoSync == [running_lock |-> "free", responded_to_lock |-> "free",
           access |-> NoAccess, pending |-> <<>>]

(***************************************************************************)
(* The cluster shutdown of __main__ (arkrcon.py) has not been asked for:   *)
(* todo holds the ports the for loop has yet to take, p the current one,   *)
(* k the index of the command it is at, rcon the default session while     *)
(* conn is another one.                                                    *)
(***************************************************************************)
NoMain == [pc |-> "off", todo |-> <<>>, p |-> "-", k |-> 0, rcon |-> <<>>]

(***************************************************************************)
(* backup.py is not running: files are the files of the cloud under the    *)
(* root folder, existing_saved and latest_id the locals of a run.          *)
(***************************************************************************)
NoCloud == [pc |-> "off", MAX_BACKUP |-> 0, files |-> {}, existing_saved |-> {},
            latest_id |-> 0, uploaded |-> 0, removed |-> {}, runs |-> 0, now |-> 0]

(***************************************************************************)
(* Init: the state after RCON.__init__.                                    *)
(***************************************************************************)
Init ==
    /\ running = TRUE
    /\ responsed_to = <<>>
    /\ sock = 0
    /\ socks = [i \in Conns |-> NoSocket]
    /\ rx = [i \in Conns |-> NoThread]
    /\ caller = [pc |-> "idle", calls |-> 0, ret |-> Outcome("none", "None")]
    /\ srvlog = [i \in Conns |-> <<>>]
    /\ returned = {}
    /\ objs = OneSession
    /\ sync = NoSync
    /\ main = NoMain
    /\ cloud = NoCloud

(***************************************************************************)
(* RCON.connect.                                                           *)
(***************************************************************************)
NextSocket == Cardinality({i \in Conns : socks[i].fd # "none"}) + 1

\* socket.socket(...); connect((ip, port)) succeeds; Thread(...).start()
ConnectOpen ==
    /\ caller.pc = "idle" /\ caller.calls < MaxCalls
    /\ NextSocket \in Conns
    /\ sock' = NextSocket
    /\ socks' = [socks EXCEPT ![NextSocket] =
                    [NoSocket EXCEPT !.fd = "open", !.conn = "established"]]
    /\ rx' = [rx EXCEPT ![NextSocket] = [NoThread EXCEPT !.pc = "check"]]
    /\ caller' = [caller EXCEPT !.pc = "conn_send", !.calls = @ + 1]
    /\ UNCHANGED <<running, responsed_to, srvlog, returned, objs, sync, main, cloud>>

\* socket.socket(...); connect((ip, port)) raises: the call ends there
ConnectRefused ==
    /\ caller.pc = "idle" /\ caller.calls < MaxCalls
    /\ NextSocket \in Conns
    /\ sock' = NextSocket
    /\ socks' = [socks EXCEPT ![NextSocket] =
                    [NoSocket EXCEPT !.fd = "open", !.conn = "unconnected"]]
    /\ caller' = [caller EXCEPT !.calls = @ + 1, !.ret = Outcome("connect", "raise")]
    /\ UNCHANGED <<running, responsed_to, rx, srvlog, returned, objs, sync, main, cloud>>

\* self.__sock.send(packet) in the call op, which goes on at nextpc; calls is
\* the number of calls made, this one included.
Send(pkt, op, nextpc, calls) ==
    IF SendRaises
    THEN /\ caller' = [pc |-> "idle", calls |-> calls, ret |-> Outcome(op, "raise")]
         /\ UNCHANGED socks
    ELSE \E n \in SendCounts(pkt) :
            /\ socks' = [socks EXCEPT ![sock].sent = Append(@, Prefix(pkt, n))]
            /\ caller' = [pc |-> nextpc, calls |-> calls,
                          ret |-> IF nextpc = "idle" THEN Outcome(op, "None")
                                  ELSE caller.ret]

ConnectSendAuth ==
    /\ caller.pc = "conn_send"
    /\ Send(build_packet(PyInt(AUTH_ID), PyInt(SERVERDATA_AUTH), password),
            "connect", "conn_wait", caller.calls)
    /\ UNCHANGED <<running, responsed_to, sock, rx, srvlog, returned, objs, sync, main, cloud>>

\* while not self.is_responded(50): time.sleep(0.2)
ConnectAuthWaitAnyReply ==
    /\ caller.pc = "conn_wait"
    /\ responsed_to # <<>>
    /\ caller' = [caller EXCEPT !.pc = "idle", !.ret = Outcome("connect", "None")]
    /\ returned' = returned \cup {sock}
    /\ UNCHANGED <<running, responsed_to, sock, socks, rx, srvlog, objs, sync, main, cloud>>

ConnectAuthWaitOrDead ==
    /\ caller.pc = "conn_wait"
    /\ (is_responded(PyInt(AUTH_ID)) \/ rx[sock].pc \in {"done", "crashed"})
    /\ caller' = [caller EXCEPT !.pc = "idle", !.ret = Outcome("connect", "None")]
    /\ returned' = returned \cup {sock}
    /\ UNCHANGED <<running, responsed_to, sock, socks, rx, srvlog, objs, sync, main, cloud>>

ConnectAuthWait ==
    /\ caller.pc = "conn_wait"
    /\ is_responded(PyInt(AUTH_ID))
    /\ caller' = [caller EXCEPT !.pc = "idle", !.ret = Outcome("connect", "None")]
    /\ returned' = returned \cup {sock}
    /\ UNCHANGED <<running, responsed_to, sock, socks, rx, srvlog, objs, sync, main, cloud>>

(***************************************************************************)
(* RCON.send_cmd.                                                          *)
(***************************************************************************)
CmdIds == {PyInt(SAVEWORLD_ID), PyInt(DOEXIT_ID)}
CmdText == <<120>>

send_cmd(pack_id, content) ==
    /\ caller.pc = "idle" /\ caller.calls < MaxCalls
    /\ Send(build_packet(pack_id, PyInt(SERVERDATA_EXECCOMMAND), content),
            "send_cmd", "idle", caller.calls + 1)
    /\ UNCHANGED <<running, responsed_to, sock, rx, srvlog, returned, objs, sync, main, cloud>>

(***************************************************************************)
(* RCON.disconnect, as two steps of the calling thread: shutdown, then     *)
(* close and return.  An exception in either returns False.                *)
(***************************************************************************)
PreFd == IF sock = 0 THEN "none" ELSE socks[sock].fd

\* self.__sock.shutdown(socket.SHUT_RDWR) raises: except -> return False
DisconnectFail ==
    /\ caller.pc = "idle" /\ caller.calls < MaxCalls
    /\ (IF ShutdownRaises THEN TRUE ELSE ShutdownMayRaise)
    /\ caller' = [pc |-> "idle", calls |-> caller.calls + 1,
                  ret |-> [Outcome("disconnect", "False") EXCEPT
                              !.pre = PreFd, !.target = sock]]
    /\ UNCHANGED <<running, responsed_to, sock, socks, rx, srvlog, returned, objs, sync, main, cloud>>

\* self.__sock.shutdown(socket.SHUT_RDWR) succeeds
DisconnectShutdown ==
    /\ caller.pc = "idle" /\ caller.calls < MaxCalls
    /\ ~ShutdownRaises
    /\ socks' = [socks EXCEPT ![sock].shut = TRUE]
    /\ caller' = [pc |-> "disc_close", calls |-> caller.calls + 1,
                  ret |-> [Outcome("disconnect", "pending") EXCEPT
                              !.pre = PreFd, !.target = sock,
                              !.shut = ~socks[sock].shut]]
    /\ UNCHANGED <<running, responsed_to, sock, rx, srvlog, returned, objs, sync, main, cloud>>

\* self.__sock.close(); print "Disconnected Successfully."; return True
DisconnectClose ==
    /\ caller.pc = "disc_close"
    /\ socks' = [socks EXCEPT ![sock].fd = "closed"]
    /\ caller' = [caller EXCEPT !.pc = "idle",
                     !.ret = [@ EXCEPT !.val = "True",
                                       !.closed = (socks[sock].fd = "open")]]
    /\ UNCHANGED <<running, responsed_to, sock, rx, srvlog, returned, objs, sync, main, cloud>>

(***************************************************************************)
(* RCON.set_running.                                                       *)
(***************************************************************************)
set_running(val) ==
    /\ caller.pc = "idle" /\ caller.calls < MaxCalls
    /\ running' = val
    /\ caller' = [pc |-> "idle", calls |-> caller.calls + 1,
                  ret |-> Outcome("set_running", "None")]
    /\ UNCHANGED <<responsed_to, sock, socks, rx, srvlog, returned, objs, sync, main, cloud>>

(***************************************************************************)
(* RCON.__reception, the thread started for socket i.                      *)
(***************************************************************************)
\* state, cur_item and cur_struct are locals set before the while loop: each
\* recv goes on from where the last one stopped.  printed holds the packets
\* handed to the observer; nread and split are history (the bytes returned by
\* recv so far, and whether some recv ended in the middle of a field); eof
\* tells what ended the zero-length read the thread saw: "peer" where this
\* end had not shut the socket down, "local" where it had; disc is what the
\* thread's own disconnect() returned.
ResumeParserFresh(t) ==
    [state |-> t.state, cur_item |-> <<>>, cur_struct |-> t.cur_struct,
     out |-> <<>>, err |-> FALSE]
ResumeParser(t) ==
    [state |-> t.state, cur_item |-> t.cur_item, cur_struct |-> t.cur_struct,
     out |-> <<>>, err |-> FALSE]

\* while self.running: ... ; after the loop, "Reception thread closed."
RxCheckIgnoreFlag(i) ==
    /\ rx[i].pc = "check"
    /\ rx' = [rx EXCEPT ![i].pc = "recv"]
    /\ UNCHANGED <<running, responsed_to, sock, socks, caller, srvlog, returned, objs, sync, main, cloud>>

RxCheck(i) ==
    /\ rx[i].pc = "check"
    /\ rx' = [rx EXCEPT ![i].pc = IF running THEN "recv" ELSE "done"]
    /\ UNCHANGED <<running, responsed_to, sock, socks, caller, srvlog, returned, objs, sync, main, cloud>>

\* buf = sock.recv(4096) returns k bytes; for b in buf: ...
RxRecvData(i, k) ==
    /\ rx[i].pc = "recv"
    /\ socks[i].conn # "reset"
    /\ k \in 1..Min(Len(socks[i].inbuf), RECV_SIZE)
    /\ LET buf == Prefix(socks[i].inbuf, k)
           p == FeedBytes(ResumeParser(rx[i]), buf)
       IN  /\ rx' = [rx EXCEPT ![i] =
                        [@ EXCEPT !.pc = IF p.err THEN "crashed" ELSE "check",
                                  !.state = p.state,
                                  !.cur_item = p.cur_item,
                                  !.cur_struct = p.cur_struct,
                                  !.printed = @ \o p.out,
                                  !.nread = @ + k,
                                  !.split = @ \/ p.cur_item # <<>>]]
           /\ responsed_to' = SetRespondedAll(responsed_to, p.out)
    /\ socks' = [socks EXCEPT ![i].inbuf = Drop(@, k)]
    /\ UNCHANGED <<running, sock, caller, srvlog, returned, objs, sync, main, cloud>>

\* buf = sock.recv(4096) returns b"": the peer closed, or this end shut down
RxRecvEof(i) ==
    /\ rx[i].pc = "recv"
    /\ socks[i].conn # "reset"
    /\ socks[i].inbuf = <<>>
    /\ (socks[i].shut \/ socks[i].conn = "peer_fin")
    /\ rx' = [rx EXCEPT ![i].pc = "disc",
                         ![i].eof = IF socks[i].shut THEN "local" ELSE "peer"]
    /\ UNCHANGED <<running, responsed_to, sock, socks, caller, srvlog, returned, objs, sync, main, cloud>>

\* sock.recv(4096) raises (closed socket object, connection reset): the
\* exception is not caught and ends the thread
RxRecvRaise(i) ==
    /\ rx[i].pc = "recv"
    /\ (socks[i].fd = "closed" \/ socks[i].conn = "reset")
    /\ rx' = [rx EXCEPT ![i].pc = "crashed"]
    /\ UNCHANGED <<running, responsed_to, sock, socks, caller, srvlog, returned, objs, sync, main, cloud>>

\* if self.disconnect(): shutdown raises -> False; break
RxDisconnectFailNoBreak(i) ==
    /\ rx[i].pc = "disc"
    /\ (IF ShutdownRaises THEN TRUE ELSE ShutdownMayRaise)
    /\ rx' = [rx EXCEPT ![i].pc = "check", ![i].disc = "False"]
    /\ UNCHANGED <<running, responsed_to, sock, socks, caller, srvlog, returned, objs, sync, main, cloud>>

RxDisconnectFail(i) ==
    /\ rx[i].pc = "disc"
    /\ (IF ShutdownRaises THEN TRUE ELSE ShutdownMayRaise)
    /\ rx' = [rx EXCEPT ![i].pc = "done", ![i].disc = "False"]
    /\ UNCHANGED <<running, responsed_to, sock, socks, caller, srvlog, returned, objs, sync, main, cloud>>

\* if self.disconnect(): shutdown succeeds
RxDisconnectShutdown(i) ==
    /\ rx[i].pc = "disc"
    /\ ~ShutdownRaises
    /\ socks' = [socks EXCEPT ![sock].shut = TRUE]
    /\ rx' = [rx EXCEPT ![i].pc = "disc_close"]
    /\ UNCHANGED <<running, responsed_to, sock, caller, srvlog, returned, objs, sync, main, cloud>>

\* close(); return True; "Connection closed on other end, ..."; break
RxDisconnectClose(i) ==
    /\ rx[i].pc = "disc_close"
    /\ socks' = [socks EXCEPT ![sock].fd = "closed"]
    /\ rx' = [rx EXCEPT ![i].pc = "done", ![i].disc = "True"]
    /\ UNCHANGED <<running, responsed_to, sock, caller, srvlog, returned, objs, sync, main, cloud>>

(***************************************************************************)
(* The server at the other end of socket i.                                *)
(***************************************************************************)
\* A packet as the server puts it on the wire: the bytes __build_packet gives
\* for its id, type and body; where size is not None, the size field holds
\* that value instead.
Wire(pkt) ==
    IF pkt.size = None THEN build_packet(pkt.id, pkt.type, pkt.body)
    ELSE to_bytes(pkt.size) \o Drop(build_packet(pkt.id, pkt.type, pkt.body), 4)

Packet(id, type, body) == [id |-> id, type |-> type, body |-> body, size |-> None]

Replies ==
    {Packet(PyInt(AUTH_ID), PyInt(SERVERDATA_AUTH_RESPONSE), <<>>),
     Packet(PyInt(SAVEWORLD_ID), PyInt(SERVERDATA_RESPONSE_VALUE), <<>>),
     Packet(PyInt(DOEXIT_ID), PyInt(SERVERDATA_RESPONSE_VALUE), <<>>)}

\* The server answers requests: it sends a packet with an id only after a
\* request carrying that id has reached it on the same connection.
Requested(i, id) ==
    \E k \in 1..Len(socks[i].sent) :
        /\ Len(socks[i].sent[k]) >= 8
        /\ SubSeq(socks[i].sent[k], 5, 8) = to_bytes(id)

ServerPut(i, pkt) ==
    /\ socks[i].conn = "established"
    /\ Requested(i, pkt.id)
    /\ socks' = [socks EXCEPT ![i].inbuf = @ \o Wire(pkt)]
    /\ srvlog' = [srvlog EXCEPT ![i] = Append(@, pkt)]
    /\ UNCHANGED <<running, responsed_to, sock, rx, caller, returned, objs, sync, main, cloud>>

ServerSend(i, pkt) ==
    /\ Len(srvlog[i]) < MaxServerPackets
    /\ ServerPut(i, pkt)

ServerClose(i) ==
    /\ socks[i].conn = "established"
    /\ socks' = [socks EXCEPT ![i].conn = "peer_fin"]
    /\ UNCHANGED <<running, responsed_to, sock, rx, caller, srvlog, returned, objs, sync, main, cloud>>

ServerReset(i) ==
    /\ socks[i].conn \in {"established", "peer_fin"}
    /\ socks' = [socks EXCEPT ![i].conn = "reset", ![i].inbuf = <<>>]
    /\ UNCHANGED <<running, responsed_to, sock, rx, caller, srvlog, returned, objs, sync, main, cloud>>

(***************************************************************************)
(* The session: any calls by the caller's thread, any server.  A recv of   *)
(* the session returns what is available but for at most MaxHoldBack       *)
(* bytes; SpecCodec below tries every split.                               *)
(***************************************************************************)
ShortReads(i) ==
    {k \in 1..Len(socks[i].inbuf) : k >= Len(socks[i].inbuf) - MaxHoldBack}

Next ==
    \/ ConnectOpen
    \/ ConnectRefused
    \/ ConnectSendAuth
    \/ ConnectAuthWait
    \/ \E id \in CmdIds : send_cmd(id, CmdText)
    \/ DisconnectFail
    \/ DisconnectShutdown
    \/ DisconnectClose
    \/ \E val \in BOOLEAN : set_running(val)
    \/ \E i \in Conns : RxCheck(i)
    \/ \E i \in Conns : \E k \in ShortReads(i) : RxRecvData(i, k)
    \/ \E i \in Conns : RxRecvEof(i)
    \/ \E i \in Conns : RxRecvRaise(i)
    \/ \E i \in Conns : RxDisconnectFail(i)
    \/ \E i \in Conns : RxDisconnectShutdown(i)
    \/ \E i \in Conns : RxDisconnectClose(i)
    \/ \E i \in Conns : \E pkt \in Replies : ServerSend(i, pkt)
    \/ \E i \in Conns : ServerClose(i)
    \/ \E i \in Conns : ServerReset(i)

Spec == Init /\ [][Next]_vars


(***************************************************************************)
(* The parser on preloaded streams.  SpecCodec starts where connect() has  *)
(* opened socket 1, started its reception thread and sent the auth packet, *)
(* and the server has put a stream on the wire: one packet over a wide     *)
(* range of ids, types and bodies, several packets back to back, or a      *)
(* packet whose size field was replaced.  Its steps are those of the       *)
(* reception thread, with recv returning any non-empty prefix.             *)
(***************************************************************************)
Alphabet == {65, 233, 8364, 128512}     \* "A", e-acute, euro sign, an emoji
Strings(n) == UNION {[1..k -> Alphabet] : k \in 0..n}
Hunter2 == <<104, 117, 110, 116, 101, 114, 50>>

SampleInts == {PyInt(0), PyInt(AUTH_ID), PyInt(16909060), MaxU32}
SampleTypes == {PyInt(SERVERDATA_RESPONSE_VALUE), PyInt(SERVERDATA_AUTH), MaxU32}

SinglePackets ==
    {Packet(id, type, body) :
        id \in SampleInts, type \in SampleTypes, body \in Strings(MaxBodyLen)}
    \cup {Packet(PyInt(AUTH_ID), PyInt(SERVERDATA_AUTH), Hunter2)}

SmallPackets ==
    {Packet(id, PyInt(SERVERDATA_RESPONSE_VALUE), body) :
        id \in CmdIds, body \in {<<>>, <<233>>}}

TamperSizes == {PyInt(n) : n \in 0..MaxTamper} \cup {MaxU32}

TamperedStreams ==
    {<<[pkt EXCEPT !.size = sz], Packet(PyInt(DOEXIT_ID), PyInt(0), <<>>)>> :
        pkt \in SmallPackets, sz \in TamperSizes}

CodecInputs ==
    {<<pkt>> : pkt \in SinglePackets}
    \cup UNION {[1..n -> SmallPackets] : n \in 2..MaxPackets}
    \cup {t \in TamperedStreams : t[1].size # PyInt(Len(utf8_encode(t[1].body)) + 10)}

RECURSIVE WireAll(_)
WireAll(pkts) == IF pkts = <<>> THEN <<>> ELSE Wire(Head(pkts)) \o WireAll(Tail(pkts))

InitCodec ==
    /\ running = TRUE
    /\ responsed_to = <<>>
    /\ sock = 1
    /\ \E pkts \in CodecInputs :
        /\ srvlog = [i \in Conns |-> IF i = 1 THEN pkts ELSE <<>>]
        /\ socks = [i \in Conns |->
                      IF i = 1
                      THEN [fd |-> "open", conn |-> "established", shut |-> FALSE,
                            inbuf |-> WireAll(pkts),
                            sent |-> <<build_packet(PyInt(AUTH_ID),
                                                    PyInt(SERVERDATA_AUTH), password)>>]
                      ELSE NoSocket]
    /\ rx = [i \in Conns |-> IF i = 1 THEN [NoThread EXCEPT !.pc = "check"] ELSE NoThread]
    /\ caller = [pc |-> "conn_wait", calls |-> 1, ret |-> Outcome("none", "None")]
    /\ returned = {}
    /\ objs = OneSession
    /\ sync = NoSync
    /\ main = NoMain
    /\ cloud = NoCloud

NextCodec ==
    \/ RxCheck(1)
    \/ \E k \in 1..Len(socks[1].inbuf) : RxRecvData(1, k)

SpecCodec == InitCodec /\ [][NextCodec]_vars


(***************************************************************************)
(* Properties of the encoder and the parser, checked under SpecCodec.      *)
(***************************************************************************)
Input == srvlog[1]
Stream == WireAll(Input)
AllValid == \A k \in 1..Len(Input) : Input[k].size = None
Drained == socks[1].inbuf = <<>>
Decoded(pkt) == [body |-> pkt.body, pack_id |-> pkt.id, pack_type |-> pkt.type]
Whole == FeedBytes(NewParser, Stream)

\* C1: round trip.  Once the parser has been fed all the bytes that
\* __build_packet(id, type, body) produced, it has decoded exactly one packet,
\* and its id, type and body are the inputs.
C1_RoundTrip ==
    (Len(Input) = 1 /\ AllValid /\ Drained)
        => rx[1].printed = <<Decoded(Input[1])>>

\* C2: fragmentation invariance.  However the bytes of one valid packet were
\* split over recv calls, once they are all in the parser has decoded the one
\* packet it decodes from the whole (same id and type as sent), the thread has
\* not failed, and the parser is reading a size with an empty field buffer.
C2_FragmentationInvariance ==
    (Len(Input) = 1 /\ AllValid /\ Drained)
        => /\ rx[1].pc # "crashed"
           /\ rx[1].printed = Whole.out
           /\ Len(rx[1].printed) = 1
           /\ rx[1].printed[1].pack_id = Input[1].id
           /\ rx[1].printed[1].pack_type = Input[1].type
           /\ rx[1].state = 0
           /\ rx[1].cur_item = <<>>

C2_Witness ==
    /\ Len(Input) = 1 /\ AllValid /\ Drained
    /\ rx[1].split
    /\ Len(rx[1].printed) = 1
    /\ Input[1].body # <<>>

\* C3: coalescing.  Once N valid packets sent back to back are all in, in one
\* chunk or split in any way, the parser has decoded N packets in the order
\* sent and exactly their N ids were appended to the responded list, in order.
C3_Coalescing ==
    (AllValid /\ Drained)
        => /\ Len(rx[1].printed) = Len(Input)
           /\ \A k \in 1..Len(Input) : rx[1].printed[k].pack_id = Input[k].id
           /\ responsed_to = [k \in 1..Len(Input) |-> Input[k].id]

C3_Witness ==
    /\ Len(Input) >= 2 /\ AllValid /\ Drained
    /\ rx[1].split
    /\ Len(responsed_to) = Len(Input)
    /\ responsed_to[1] # responsed_to[2]

\* The four bytes of b from position at are the little-endian form of v.
LittleEndian(b, at, v) ==
    /\ \A k \in at..(at + 3) : b[k] \in 0..255
    /\ b[at] + 256 * b[at + 1] = v[2]
    /\ b[at + 2] + 256 * b[at + 3] = v[1]

\* C4: encoding layout.  The bytes __build_packet gives are size, id and type
\* as 4-byte little-endian fields, the UTF-8 bytes of the body and two zero
\* bytes; the size field is len(UTF-8 body) + 10 and the length is size + 4;
\* (50, 3, "hunter2") gives size 17.
C4_EncodingLayout ==
    (Len(Input) = 1 /\ AllValid /\ rx[1].nread = 0)
        => LET b == socks[1].inbuf
               body == utf8_encode(Input[1].body)
               n == Len(body)
           IN  /\ Len(b) = (n + 10) + 4
               /\ LittleEndian(b, 1, <<0, n + 10>>)
               /\ LittleEndian(b, 5, Input[1].id)
               /\ LittleEndian(b, 9, Input[1].type)
               /\ SubSeq(b, 13, 12 + n) = body
               /\ b[13 + n] = 0 /\ b[14 + n] = 0
               /\ (Input[1].body = Hunter2 /\ Input[1].id = PyInt(50)
                   /\ Input[1].type = PyInt(3))
                    => b = <<17, 0, 0, 0, 50, 0, 0, 0, 3, 0, 0, 0,
                             104, 117, 110, 116, 101, 114, 50, 0, 0>>

C4_Witness ==
    /\ Len(Input) = 1 /\ AllValid /\ rx[1].nread = 0
    /\ Input[1].body = Hunter2
    /\ socks[1].inbuf[1] = 17

\* C5: tampered size.  For a packet whose size field differs from
\* len(body) + 10, once size + 4 or more bytes of the stream are all in, the
\* thread has failed with a decode error or the parser has emitted a packet
\* whose body has the declared length (size - 10 bytes) and gone back to
\* reading a size; and what the parser holds depends only on the bytes fed,
\* not on how they were split.
C5_TamperedSize ==
    (Len(Input) >= 1 /\ ~AllValid)
        => LET size == Input[1].size
               fed == FeedBytes(NewParser, Prefix(Stream, rx[1].nread))
           IN  /\ rx[1].state = fed.state
               /\ rx[1].cur_item = fed.cur_item
               /\ rx[1].printed = fed.out
               /\ (rx[1].pc = "crashed") = fed.err
               /\ (Drained /\ size[1] = 0 /\ Len(Stream) >= size[2] + 4)
                    => \/ rx[1].pc = "crashed"
                       \/ /\ Len(rx[1].printed) >= 1
                          /\ Len(utf8_encode(rx[1].printed[1].body)) = size[2] - 10


(***************************************************************************)
(* Properties of the session, checked under Spec.                          *)
(***************************************************************************)
AuthId == PyInt(AUTH_ID)
PrintedIds(i) == {rx[i].printed[k].pack_id : k \in 1..Len(rx[i].printed)}
SentIds(i) == {srvlog[i][k].id : k \in 1..Len(srvlog[i])}

\* The first k packets the server sent on socket i have been returned by recv
\* to the last byte.
FullyReceived(i, k) == rx[i].nread >= Len(WireAll(Prefix(srvlog[i], k)))

\* C6: an id is in the responded list only if a complete packet carrying it
\* (all size + 4 bytes) has been received; while the server has sent no packet
\* with id 50, is_responded(50) is false and no connect() has returned.
C6_RespondedOnlyAfterFullPacket ==
    /\ \A id \in Range(responsed_to) :
          \E i \in Conns : \E k \in 1..Len(srvlog[i]) :
              srvlog[i][k].id = id /\ FullyReceived(i, k)
    /\ (\A i \in Conns : AuthId \notin SentIds(i))
          => (~is_responded(AuthId) /\ returned = {})

C6_Witness ==
    \E i \in Conns :
        /\ Len(srvlog[i]) = 2
        /\ srvlog[i][2].id = PyInt(SAVEWORLD_ID)
        /\ rx[i].nread = Len(WireAll(srvlog[i])) - 1
        /\ is_responded(AuthId)
        /\ ~is_responded(PyInt(SAVEWORLD_ID))
        /\ caller.pc = "idle"

\* C7: the responded list is append-only: every step keeps the entries it
\* had, in place, whatever operation it belongs to.
C7_RespondedAppendOnly ==
    [][/\ Len(responsed_to') >= Len(responsed_to)
       /\ SubSeq(responsed_to', 1, Len(responsed_to)) = responsed_to]_vars

\* The wait of a second send_cmd(60) is over before its own reply: two
\* requests with id 60 went out, one reply with id 60 came in.
CompleteSends(i, id) ==
    {k \in 1..Len(socks[i].sent) :
        socks[i].sent[k] = build_packet(id, PyInt(SERVERDATA_EXECCOMMAND), CmdText)}
RepliesWith(i, id) == {k \in 1..Len(srvlog[i]) : srvlog[i][k].id = id}

C7_Witness ==
    /\ Cardinality(CompleteSends(1, PyInt(SAVEWORLD_ID))) = 2
    /\ Cardinality(RepliesWith(1, PyInt(SAVEWORLD_ID))) = 1
    /\ is_responded(PyInt(SAVEWORLD_ID))
    /\ responsed_to = <<AuthId, PyInt(SAVEWORLD_ID)>>

\* C8: every connect() that has returned, the first on the session or a later
\* one, opened its socket, started its reception thread, sent one auth packet
\* with id 50 on it, and returned only after that thread had parsed a packet
\* with id 50.
C8_ConnectWaitsForOwnReply ==
    \A i \in returned :
        /\ socks[i].fd # "none"
        /\ rx[i].pc # "none"
        /\ Len(socks[i].sent) >= 1
        /\ Len(socks[i].sent[1]) >= 12
        /\ SubSeq(socks[i].sent[1], 5, 12) = to_bytes(AuthId) \o to_bytes(PyInt(SERVERDATA_AUTH))
        /\ AuthId \in PrintedIds(i)

\* No connect() of the session has succeeded on the socket disconnect() found.
NeverConnected(t) == IF t = 0 THEN TRUE ELSE socks[t].conn = "unconnected"

\* C10: a disconnect() of the caller never raises; it returns True exactly
\* when it shut down and closed an open socket, and False exactly when the
\* socket was already closed or the session never connected; after it
\* returned False on a session that was connected, the socket is closed.
C10_DisconnectResult ==
    (caller.pc = "idle" /\ caller.ret.op = "disconnect")
        => LET r == caller.ret
           IN  /\ r.val \in {"True", "False"}
               /\ (r.val = "True") <=> (r.shut /\ r.closed)
               /\ (r.val = "False") <=> (r.pre = "closed" \/ NeverConnected(r.target))
               /\ (r.val = "False" /\ ~NeverConnected(r.target))
                    => socks[r.target].fd = "closed"


(***************************************************************************)
(* Two commands on a connected session.  The caller connects, then calls   *)
(* send_cmd(60, ..) and send_cmd(61, ..); the server answers each request  *)
(* at most once, in any order; recv returns any non-empty prefix.  The     *)
(* reception thread is a thread of its own: it is scheduled (weak          *)
(* fairness of its loop test and of a recv for which bytes are there).     *)
(***************************************************************************)
NextCmd ==
    \/ (NextSocket = 1 /\ ConnectOpen)
    \/ ConnectSendAuth
    \/ ConnectAuthWait
    \/ (1 \in returned /\ Len(socks[1].sent) = 1
        /\ send_cmd(PyInt(SAVEWORLD_ID), CmdText))
    \/ (1 \in returned /\ Len(socks[1].sent) = 2
        /\ send_cmd(PyInt(DOEXIT_ID), CmdText))
    \/ RxCheck(1)
    \/ \E k \in 1..Len(socks[1].inbuf) : RxRecvData(1, k)
    \/ \E pkt \in Replies : (pkt.id \notin SentIds(1) /\ ServerPut(1, pkt))

SpecCmd ==
    /\ Init
    /\ [][NextCmd]_vars
    /\ WF_vars(RxCheck(1))
    /\ WF_vars(\E k \in 1..Len(socks[1].inbuf) : RxRecvData(1, k))

\* C9: once the server has sent a complete response for id 60 and one for
\* id 61, in either order, is_responded(60) and is_responded(61) both become
\* true, however the responses are split over recv calls.
C9_BothEventuallyResponded ==
    (RepliesWith(1, PyInt(SAVEWORLD_ID)) # {} /\ RepliesWith(1, PyInt(DOEXIT_ID)) # {})
        ~> (is_responded(PyInt(SAVEWORLD_ID)) /\ is_responded(PyInt(DOEXIT_ID)))

C9_Witness ==
    /\ Len(srvlog[1]) = 3
    /\ srvlog[1][2].id = PyInt(DOEXIT_ID)
    /\ srvlog[1][3].id = PyInt(SAVEWORLD_ID)
    /\ responsed_to = <<AuthId, PyInt(DOEXIT_ID), PyInt(SAVEWORLD_ID)>>


(***************************************************************************)
(* The end of a connection, checked under Spec.                            *)
(***************************************************************************)
\* What the parser of thread i holds after the bytes recv has returned to it.
FedSoFar(i) == FeedBytes(NewParser, Prefix(WireAll(srvlog[i]), rx[i].nread))

\* C11: a reception thread that saw a zero-length read because the peer closed
\* calls disconnect() itself and then exits without parsing again: the ids it
\* appended are those of the complete packets it had read, a partly read
\* packet is dropped; once it has exited, the session's socket is closed and a
\* disconnect() by the caller finds it so and returns False.
C11_PeerCloseEndsThread ==
    \A i \in Conns :
        rx[i].eof = "peer"
            => /\ rx[i].pc \in {"disc", "disc_close", "done"}
               /\ rx[i].printed = FedSoFar(i).out
               /\ (rx[i].pc = "done" /\ sock = i /\ caller.pc = "idle")
                    => (socks[i].fd = "closed" /\ ShutdownRaises)


(***************************************************************************)
(* One connection to its end.  The caller connects once and then makes     *)
(* any calls (send_cmd, disconnect, set_running(False)); the server        *)
(* answers, closes or resets, or stays silent.  The reception thread is a  *)
(* thread of its own and is scheduled: each of its steps that stays        *)
(* possible is taken (weak fairness).  Nothing is assumed of the caller    *)
(* or of the server.                                                       *)
(***************************************************************************)
NextTeardown ==
    \/ (NextSocket = 1 /\ ConnectOpen)
    \/ ConnectSendAuth
    \/ ConnectAuthWait
    \/ send_cmd(PyInt(SAVEWORLD_ID), CmdText)
    \/ DisconnectFail
    \/ DisconnectShutdown
    \/ DisconnectClose
    \/ set_running(FALSE)
    \/ RxCheck(1)
    \/ \E k \in 1..Len(socks[1].inbuf) : RxRecvData(1, k)
    \/ RxRecvEof(1)
    \/ RxRecvRaise(1)
    \/ RxDisconnectFail(1)
    \/ RxDisconnectShutdown(1)
    \/ RxDisconnectClose(1)
    \/ \E pkt \in Replies : ServerSend(1, pkt)
    \/ ServerClose(1)
    \/ ServerReset(1)

SpecTeardown ==
    /\ Init
    /\ [][NextTeardown]_vars
    /\ WF_vars(RxCheck(1))
    /\ WF_vars(\E k \in 1..Len(socks[1].inbuf) : RxRecvData(1, k))
    /\ WF_vars(RxRecvEof(1))
    /\ WF_vars(RxRecvRaise(1))
    /\ WF_vars(RxDisconnectFail(1))
    /\ WF_vars(RxDisconnectShutdown(1))
    /\ WF_vars(RxDisconnectClose(1))

\* The reception thread of socket i has ended: it left its loop, or an
\* exception that nothing catches ended it.
Terminated(i) == rx[i].pc \in {"done", "crashed"}

\* C12: after a disconnect() of the caller on the connected session has
\* returned, True or False, the reception thread of that connection
\* eventually ends, whatever its parser state and its place in the loop were.
C12_TeardownEndsThread ==
    (caller.pc = "idle" /\ caller.ret.op = "disconnect" /\ caller.ret.target = 1)
        ~> Terminated(1)

C12_Witness ==
    /\ caller.pc = "idle" /\ caller.ret.op = "disconnect"
    /\ caller.ret.target = 1 /\ caller.ret.val = "True"
    /\ rx[1].state = 3 /\ rx[1].printed # <<>>
    /\ Terminated(1)

\* C13: once set_running(False) has been called on the connected session,
\* its reception thread eventually ends, also where the server sends nothing
\* more and nobody closes the socket.
C13_StopFlagEndsThread ==
    (running = FALSE /\ rx[1].pc # "none") ~> Terminated(1)


(***************************************************************************)
(* The reception thread on streams a client would not send.  SpecRaw       *)
(* starts like SpecCodec, with a stream of packets given byte by byte: the *)
(* size field is right (len(body bytes) + 10), the body bytes are valid    *)
(* UTF-8 or not, and the two trailing bytes have any value.  The thread    *)
(* runs its whole loop; the server may close or reset the connection; the  *)
(* caller is waiting in connect().                                         *)
(***************************************************************************)
RawPacket(id, type, bytes, tail) ==
    [id |-> id, type |-> type, bytes |-> bytes, tail |-> tail]

WireRaw(pkt) ==
    to_bytes(PyInt(Len(pkt.bytes) + 10)) \o to_bytes(pkt.id) \o to_bytes(pkt.type)
    \o pkt.bytes \o pkt.tail

RECURSIVE WireRawAll(_)
WireRawAll(pkts) ==
    IF pkts = <<>> THEN <<>> ELSE WireRaw(Head(pkts)) \o WireRawAll(Tail(pkts))

\* an invalid byte, a truncated sequence, a stray continuation byte, a surrogate
BadBodies == {<<255>>, <<65, 195>>, <<128>>, <<237, 160, 128>>}
GoodBodies == {<<>>, <<65>>, <<195, 169>>}
ZeroTail == <<0, 0>>
Tails == {ZeroTail, <<0, 7>>, <<65, 0>>, <<169, 66>>, <<255, 255>>}

BadPackets ==
    {RawPacket(PyInt(AUTH_ID), PyInt(SERVERDATA_AUTH_RESPONSE), b, ZeroTail) :
        b \in BadBodies}
GoodPackets ==
    {RawPacket(PyInt(DOEXIT_ID), PyInt(SERVERDATA_RESPONSE_VALUE), b, t) :
        b \in GoodBodies, t \in Tails}
PlainPacket == RawPacket(PyInt(SAVEWORLD_ID), PyInt(SERVERDATA_RESPONSE_VALUE),
                         <<>>, ZeroTail)

RawInputs ==
    {<<pkt>> : pkt \in BadPackets \cup GoodPackets}
    \cup {<<PlainPacket, pkt>> : pkt \in BadPackets}
    \cup {<<pkt, PlainPacket>> : pkt \in BadPackets \cup GoodPackets}

InitRaw ==
    /\ running = TRUE
    /\ responsed_to = <<>>
    /\ sock = 1
    /\ \E pkts \in RawInputs :
        /\ srvlog = [i \in Conns |-> IF i = 1 THEN pkts ELSE <<>>]
        /\ socks = [i \in Conns |->
                      IF i = 1
                      THEN [fd |-> "open", conn |-> "established", shut |-> FALSE,
                            inbuf |-> WireRawAll(pkts),
                            sent |-> <<build_packet(PyInt(AUTH_ID),
                                                    PyInt(SERVERDATA_AUTH), password)>>]
                      ELSE NoSocket]
    /\ rx = [i \in Conns |-> IF i = 1 THEN [NoThread EXCEPT !.pc = "check"] ELSE NoThread]
    /\ caller = [pc |-> "conn_wait", calls |-> 1, ret |-> Outcome("none", "None")]
    /\ returned = {}
    /\ objs = OneSession
    /\ sync = NoSync
    /\ main = NoMain
    /\ cloud = NoCloud

NextRaw ==
    \/ RxCheck(1)
    \/ \E k \in 1..Len(socks[1].inbuf) : RxRecvData(1, k)
    \/ RxRecvEof(1)
    \/ RxRecvRaise(1)
    \/ RxDisconnectFail(1)
    \/ RxDisconnectShutdown(1)
    \/ RxDisconnectClose(1)
    \/ ServerClose(1)
    \/ ServerReset(1)

SpecRaw == InitRaw /\ [][NextRaw]_vars

RawStream == WireRawAll(srvlog[1])
Malformed(pkt) == pkt.bytes \in BadBodies

\* str(bytes(cur_item), "UTF-8") has raised in thread i: state was set to 4
\* on the line before, cur_item was not reset on the line after.
DecodeFailed(i) == rx[i].state = 4 /\ rx[i].cur_item # <<>>

\* The server sent a packet whose body bytes are not valid UTF-8.
HasMalformed(i) == \E k \in 1..Len(srvlog[i]) : Malformed(srvlog[i][k])

\* The packets of the stream before the first malformed one.
RECURSIVE BeforeMalformed(_)
BeforeMalformed(pkts) ==
    IF pkts = <<>> \/ Malformed(Head(pkts)) THEN <<>>
    ELSE <<Head(pkts)>> \o BeforeMalformed(Tail(pkts))

\* C14: a decode error in the reception thread takes the path of a peer
\* close: the thread stops parsing and goes through disconnect(); when it
\* has ended, its disconnect() has been performed and, unless the server
\* reset the connection, the socket is closed and the close was reported
\* (disconnect() returned True); no id is appended for the malformed packet
\* or for one after it.
C14_DecodeErrorClosesSession ==
    \A i \in Conns :
        (DecodeFailed(i) /\ HasMalformed(i))
            => /\ rx[i].pc \in {"disc", "disc_close", "done"}
               /\ Terminated(i)
                    => /\ rx[i].disc \in {"True", "False"}
                       /\ socks[i].conn # "reset"
                            => (socks[i].fd = "closed" /\ rx[i].disc = "True")
               /\ Len(rx[i].printed) = Len(BeforeMalformed(srvlog[i]))
               /\ Len(responsed_to) = Len(BeforeMalformed(srvlog[i]))

\* What the parser emits for the packet with its two trailing bytes zero.
WithZeroTail(pkt) == FeedBytes(NewParser, WireRaw([pkt EXCEPT !.tail = ZeroTail]))

\* C20: the two trailing bytes are not validated.  For a packet with a right
\* size field and a valid body, whatever the two trailing bytes are, once
\* its bytes are all in no decode error has occurred, the parser has emitted
\* the one packet it emits when they are 0x00 0x00 (same id, type and body),
\* the id was appended, and the parser is reading a size again.
C20_TerminatorNotValidated ==
    (Len(srvlog[1]) = 1 /\ ~HasMalformed(1) /\ rx[1].nread = Len(RawStream))
        => /\ ~DecodeFailed(1)
           /\ Len(rx[1].printed) = 1
           /\ rx[1].printed = WithZeroTail(srvlog[1][1]).out
           /\ rx[1].printed[1].pack_id = srvlog[1][1].id
           /\ rx[1].printed[1].pack_type = srvlog[1][1].type
           /\ responsed_to = <<srvlog[1][1].id>>
           /\ rx[1].state = 0 /\ rx[1].cur_item = <<>>


(***************************************************************************)
(* send_cmd, checked under Spec.                                           *)
(***************************************************************************)
Last(s) == s[Len(s)]
Commands == {build_packet(id, PyInt(SERVERDATA_EXECCOMMAND), CmdText) : id \in CmdIds}

\* C15: a send_cmd(id, text) that has returned normally has written all
\* size + 4 bytes of its SERVERDATA_EXECCOMMAND packet to the socket; where the
\* transport took less, the call raised.
C15_SendCmdAllOrError ==
    (caller.pc = "idle" /\ caller.ret.op = "send_cmd" /\ caller.ret.val = "None")
        => /\ socks[sock].sent # <<>>
           /\ Last(socks[sock].sent) \in Commands

\* The session is disconnected: connect() was never called or did not
\* succeed, or the socket has been closed.
Disconnected ==
    IF sock = 0 THEN TRUE
    ELSE socks[sock].fd = "closed" \/ socks[sock].conn = "unconnected"

\* This step is a call of send_cmd by the caller's thread.
SendCmdStep ==
    /\ caller.pc = "idle"
    /\ caller'.pc = "idle"
    /\ caller'.calls = caller.calls + 1
    /\ caller'.ret.op = "send_cmd"

\* C16: send_cmd on a disconnected session raises to its caller, writes no
\* byte to any socket and leaves the responded list and the running flag as
\* they were.
C16_SendCmdNeedsConnect ==
    [][(SendCmdStep /\ Disconnected)
          => /\ caller'.ret.val = "raise"
             /\ socks' = socks
             /\ responsed_to' = responsed_to
             /\ running' = running]_vars

C16_Witness ==
    /\ caller.pc = "idle" /\ caller.calls = 3
    /\ caller.ret.op = "send_cmd" /\ caller.ret.val = "raise"
    /\ sock \in returned
    /\ socks[sock].fd = "closed" /\ socks[sock].shut
    /\ Len(socks[sock].sent) = 1
    /\ responsed_to # <<>>


(***************************************************************************)
(* The body bytes, checked under SpecCodec.                                *)
(***************************************************************************)
\* C19: the body the parser emits for the first packet of the stream is the
\* UTF-8 text of exactly size - 10 bytes, those after the type field, where
\* size is the value parsed from the packet's own size field; the two bytes
\* after them are not part of it.
C19_BodyIsSizeMinusTenBytes ==
    (Len(Input) >= 1 /\ Len(rx[1].printed) >= 1)
        => LET size == from_bytes(SubSeq(Stream, 1, 4))
               text == utf8_encode(rx[1].printed[1].body)
           IN  (size[1] = 0 /\ size[2] >= 10)
                => /\ Len(text) = size[2] - 10
                   /\ text = SubSeq(Stream, 13, size[2] + 2)


(***************************************************************************)
(* Two sessions.  The cluster shutdown of __main__ constructs a second     *)
(* RCON object (conn = RCON(ip, int(p), password, printer)) beside the     *)
(* first and goes on with it, reusing the ids 60 and 61.  NewSession is    *)
(* that construction: the first session, as it is then, is kept in         *)
(* objs.other, and the variables of the session describe the new object    *)
(* as __init__ leaves it.  The steps after it are those of the new         *)
(* session: its calls, its reception thread, its server.                   *)
(***************************************************************************)
\* self.__responsed_to = []: a list object that no other session holds.
SharedListRef(o) == o.ref
NewListRef(o) == CHOOSE r \in ListRefs : r # o.ref

NewSession ==
    /\ caller.pc = "idle"
    /\ ~objs.other.made
    /\ LET r == NewListRef(objs)
           lists == [objs.lists EXCEPT ![objs.ref] = responsed_to]
       IN  /\ objs' = [ref |-> r, lists |-> lists,
                       other |-> [made |-> TRUE, running |-> running,
                                  ref |-> objs.ref, sock |-> sock, socks |-> socks]]
           /\ responsed_to' = lists[r]
    /\ running' = TRUE
    /\ sock' = 0
    /\ socks' = [i \in Conns |-> NoSocket]
    /\ rx' = [i \in Conns |-> NoThread]
    /\ caller' = [pc |-> "idle", calls |-> 0, ret |-> Outcome("none", "None")]
    /\ srvlog' = [i \in Conns |-> <<>>]
    /\ returned' = {}
    /\ UNCHANGED <<sync, main, cloud>>

NextPair ==
    \/ (NextSocket = 1 /\ ConnectOpen)
    \/ ConnectSendAuth
    \/ ConnectAuthWait
    \/ \E id \in CmdIds : send_cmd(id, CmdText)
    \/ DisconnectFail
    \/ DisconnectShutdown
    \/ DisconnectClose
    \/ set_running(FALSE)
    \/ RxCheck(1)
    \/ (socks[1].inbuf # <<>> /\ RxRecvData(1, Len(socks[1].inbuf)))
    \/ RxRecvEof(1)
    \/ RxRecvRaise(1)
    \/ RxDisconnectFail(1)
    \/ RxDisconnectShutdown(1)
    \/ RxDisconnectClose(1)
    \/ \E pkt \in Replies : ServerSend(1, pkt)
    \/ ServerClose(1)
    \/ NewSession

SpecPair == Init /\ [][NextPair]_vars

\* What the other session's methods and socket give: its list object is the
\* one of this session if they hold the same reference.
OtherList ==
    IF objs.other.ref = objs.ref THEN responsed_to ELSE objs.lists[objs.other.ref]
OtherIsResponded(pack_id) == pack_id \in Range(OtherList)
OtherView ==
    [is_responded |-> [id \in {AuthId} \cup CmdIds |-> OtherIsResponded(id)],
     running |-> objs.other.running,
     sock |-> objs.other.sock,
     socks |-> objs.other.socks]

\* C17: sessions are independent.  No step of one session (a packet parsed
\* by its reception thread, set_running, disconnect, connect, send_cmd, what
\* its server does) changes what is_responded(id) gives on the other
\* session for id 50, 60 or 61, the other's running flag or the other's
\* socket.
C17_SessionsIndependent ==
    [][objs.other.made => OtherView' = OtherView]_vars

C17_Witness ==
    /\ objs.other.made
    /\ OtherIsResponded(AuthId) /\ ~OtherIsResponded(PyInt(SAVEWORLD_ID))
    /\ objs.other.running
    /\ objs.other.sock = 1 /\ objs.other.socks[1].fd = "open"
    /\ responsed_to = <<AuthId, PyInt(SAVEWORLD_ID)>>
    /\ running = FALSE
    /\ socks[1].fd = "closed"


(***************************************************************************)
(* The locks.  SpecLock runs one connection with every use of self.running *)
(* and of self.__responsed_to as steps of their own: "with lock:" is a     *)
(* step that takes the RLock when no other thread holds it, the statement  *)
(* under it a step, leaving the block a step that frees it.  Each use is   *)
(* recorded in sync.access, with whether the thread held the lock of that  *)
(* field at that moment.  The threads are the caller's ("caller") and the  *)
(* reception thread of socket 1 ("rx").                                    *)
(***************************************************************************)
Use(var, kind, by, lock) ==
    [var |-> var, kind |-> kind, by |-> by, locked |-> (lock = by)]

CanTake(lock, by) == lock \in {"free", by}

\* connect(): while not self.is_responded(50) -- with self.__responded_to_lock:
IsRespondedAcquire ==
    /\ caller.pc = "conn_wait"
    /\ CanTake(sync.responded_to_lock, "caller")
    /\ sync' = [sync EXCEPT !.responded_to_lock = "caller"]
    /\ caller' = [caller EXCEPT !.pc = "ir_test"]
    /\ UNCHANGED <<running, responsed_to, sock, socks, rx, srvlog, returned, objs, main, cloud>>

\* t = pack_id in self.__responsed_to
IsRespondedTest ==
    /\ caller.pc = "ir_test"
    /\ sync' = [sync EXCEPT !.access = Use("responsed_to", "test", "caller",
                                           sync.responded_to_lock)]
    /\ caller' = [caller EXCEPT !.pc = "ir_release",
                     !.ret = Outcome("is_responded",
                                     IF is_responded(PyInt(AUTH_ID)) THEN "True"
                                     ELSE "False")]
    /\ UNCHANGED <<running, responsed_to, sock, socks, rx, srvlog, returned, objs, main, cloud>>

\* end of the with block; return t; the wait goes on or connect() returns
IsRespondedRelease ==
    /\ caller.pc = "ir_release"
    /\ sync' = [sync EXCEPT !.responded_to_lock = "free"]
    /\ IF caller.ret.val = "True"
       THEN /\ caller' = [caller EXCEPT !.pc = "idle",
                             !.ret = Outcome("connect", "None")]
            /\ returned' = returned \cup {sock}
       ELSE /\ caller' = [caller EXCEPT !.pc = "conn_wait"]
            /\ UNCHANGED returned
    /\ UNCHANGED <<running, responsed_to, sock, socks, rx, srvlog, objs, main, cloud>>

\* set_running(False) -- with self.__running_lock:
SetRunningAcquire ==
    /\ caller.pc = "idle" /\ caller.calls < MaxCalls
    /\ CanTake(sync.running_lock, "caller")
    /\ sync' = [sync EXCEPT !.running_lock = "caller"]
    /\ caller' = [caller EXCEPT !.pc = "sr_write", !.calls = @ + 1]
    /\ UNCHANGED <<running, responsed_to, sock, socks, rx, srvlog, returned, objs, main, cloud>>

\* self.running = val
SetRunningWrite ==
    /\ caller.pc = "sr_write"
    /\ running' = FALSE
    /\ sync' = [sync EXCEPT !.access = Use("running", "write", "caller",
                                           sync.running_lock)]
    /\ caller' = [caller EXCEPT !.pc = "sr_release"]
    /\ UNCHANGED <<responsed_to, sock, socks, rx, srvlog, returned, objs, main, cloud>>

SetRunningRelease ==
    /\ caller.pc = "sr_release"
    /\ sync' = [sync EXCEPT !.running_lock = "free"]
    /\ caller' = [caller EXCEPT !.pc = "idle", !.ret = Outcome("set_running", "None")]
    /\ UNCHANGED <<running, responsed_to, sock, socks, rx, srvlog, returned, objs, main, cloud>>

\* is_running() -- with self.__running_lock:
IsRunningAcquire ==
    /\ caller.pc = "idle" /\ caller.calls < MaxCalls
    /\ CanTake(sync.running_lock, "caller")
    /\ sync' = [sync EXCEPT !.running_lock = "caller"]
    /\ caller' = [caller EXCEPT !.pc = "rn_read", !.calls = @ + 1]
    /\ UNCHANGED <<running, responsed_to, sock, socks, rx, srvlog, returned, objs, main, cloud>>

\* temp = self.running
IsRunningRead ==
    /\ caller.pc = "rn_read"
    /\ sync' = [sync EXCEPT !.access = Use("running", "read", "caller",
                                           sync.running_lock)]
    /\ caller' = [caller EXCEPT !.pc = "rn_release",
                     !.ret = Outcome("is_running", IF running THEN "True" ELSE "False")]
    /\ UNCHANGED <<running, responsed_to, sock, socks, rx, srvlog, returned, objs, main, cloud>>

IsRunningRelease ==
    /\ caller.pc = "rn_release"
    /\ sync' = [sync EXCEPT !.running_lock = "free"]
    /\ caller' = [caller EXCEPT !.pc = "idle"]
    /\ UNCHANGED <<running, responsed_to, sock, socks, rx, srvlog, returned, objs, main, cloud>>

\* __reception: while self.running:
RxLoopTest ==
    /\ rx[1].pc = "check"
    /\ sync' = [sync EXCEPT !.access = Use("running", "read", "rx",
                                           sync.running_lock)]
    /\ rx' = [rx EXCEPT ![1].pc = IF running THEN "recv" ELSE "done"]
    /\ UNCHANGED <<running, responsed_to, sock, socks, caller, srvlog, returned, objs, main, cloud>>

\* buf = sock.recv(4096); for b in buf: ... -- the packets completed in buf
\* are printed, their ids go to __set_responded one after the other
RxRecvParse ==
    /\ rx[1].pc = "recv"
    /\ socks[1].inbuf # <<>>
    /\ LET buf == socks[1].inbuf
           p == FeedBytes(ResumeParser(rx[1]), buf)
       IN  /\ rx' = [rx EXCEPT ![1] =
                        [@ EXCEPT !.pc = IF p.err THEN "crashed"
                                         ELSE IF p.out = <<>> THEN "check"
                                         ELSE "set_acquire",
                                  !.state = p.state,
                                  !.cur_item = p.cur_item,
                                  !.cur_struct = p.cur_struct,
                                  !.printed = @ \o p.out,
                                  !.nread = @ + Len(buf)]]
           /\ sync' = [sync EXCEPT !.pending =
                          [k \in 1..Len(p.out) |-> p.out[k].pack_id]]
    /\ socks' = [socks EXCEPT ![1].inbuf = <<>>]
    /\ UNCHANGED <<running, responsed_to, sock, caller, srvlog, returned, objs, main, cloud>>

\* __set_responded -- with self.__responded_to_lock:
SetRespondedAcquire ==
    /\ rx[1].pc = "set_acquire"
    /\ CanTake(sync.responded_to_lock, "rx")
    /\ sync' = [sync EXCEPT !.responded_to_lock = "rx"]
    /\ rx' = [rx EXCEPT ![1].pc = "set_append"]
    /\ UNCHANGED <<running, responsed_to, sock, socks, caller, srvlog, returned, objs, main, cloud>>

\* self.__responsed_to.append(pack_id)
SetRespondedAppend ==
    /\ rx[1].pc = "set_append"
    /\ responsed_to' = set_responded(responsed_to, Head(sync.pending))
    /\ sync' = [sync EXCEPT !.access = Use("responsed_to", "append", "rx",
                                           sync.responded_to_lock)]
    /\ rx' = [rx EXCEPT ![1].pc = "set_release"]
    /\ UNCHANGED <<running, sock, socks, caller, srvlog, returned, objs, main, cloud>>

SetRespondedRelease ==
    /\ rx[1].pc = "set_release"
    /\ sync' = [sync EXCEPT !.responded_to_lock = "free", !.pending = Tail(@)]
    /\ rx' = [rx EXCEPT ![1].pc = IF Len(sync.pending) > 1 THEN "set_acquire"
                                  ELSE "check"]
    /\ UNCHANGED <<running, responsed_to, sock, socks, caller, srvlog, returned, objs, main, cloud>>

NextLock ==
    \/ (NextSocket = 1 /\ ConnectOpen)
    \/ ConnectSendAuth
    \/ IsRespondedAcquire
    \/ IsRespondedTest
    \/ IsRespondedRelease
    \/ \E id \in CmdIds : send_cmd(id, CmdText)
    \/ SetRunningAcquire
    \/ SetRunningWrite
    \/ SetRunningRelease
    \/ IsRunningAcquire
    \/ IsRunningRead
    \/ IsRunningRelease
    \/ RxLoopTest
    \/ RxRecvParse
    \/ SetRespondedAcquire
    \/ SetRespondedAppend
    \/ SetRespondedRelease
    \/ \E pkt \in Replies : ServerSend(1, pkt)

SpecLock == Init /\ [][NextLock]_vars

\* C18: lock discipline.  Whenever a thread reads or writes self.running it
\* holds the running lock, and whenever it appends to or tests membership in
\* the responded list it holds the responded lock: in is_running,
\* set_running, is_responded and __set_responded, and in the loop test of
\* the reception thread.
C18_LockDiscipline ==
    sync.access.var # "none" => sync.access.locked


(***************************************************************************)
(* The running flag, under Spec.  set_running is the only method that      *)
(* assigns self.running; the reception thread tests it before every recv.  *)
(***************************************************************************)
SetRunningStep ==
    /\ caller.pc = "idle" /\ caller'.pc = "idle"
    /\ caller'.calls = caller.calls + 1
    /\ caller'.ret.op = "set_running"

\* The thread of socket i moves on from the test of the loop condition.
LoopTestStep(i) == rx[i].pc = "check" /\ rx'[i].pc # "check"

\* C23: the running flag is true after construction and changes only in a
\* set_running call: connect() and disconnect() steps leave it as it is; a
\* connect() made while it is false starts a thread that has read nothing,
\* and a thread that tests the flag while it is false leaves the loop with
\* no read and no id appended.
C23_RunningOnlySetRunning ==
    [][/\ (running' # running) => SetRunningStep
       /\ (caller.ret.op = "none" /\ caller.calls = 0) => running
       /\ \A i \in Conns :
            /\ (rx[i].pc = "none" /\ rx'[i].pc # "none")
                 => (rx'[i].pc = "check" /\ rx'[i].nread = 0 /\ rx'[i].printed = <<>>)
            /\ (LoopTestStep(i) /\ ~running)
                 => /\ rx'[i].pc = "done"
                    /\ rx'[i].nread = rx[i].nread
                    /\ rx'[i].printed = rx[i].printed
                    /\ responsed_to' = responsed_to
                    /\ socks' = socks]_vars

\* set_running(False), then connect(): the new thread has left its loop with
\* the server's reply still unread in the socket.
C23_Witness ==
    /\ ~running
    /\ sock # 0
    /\ caller.pc = "conn_wait"
    /\ IF sock = 0 THEN FALSE
       ELSE /\ rx[sock].pc = "done"
            /\ rx[sock].nread = 0
            /\ rx[sock].disc = "-"
            /\ socks[sock].inbuf # <<>>
            /\ responsed_to = <<>>


(***************************************************************************)
(* disconnect() from two threads, under Spec: the caller's call and the    *)
(* call the reception thread makes after a zero-length read.               *)
(***************************************************************************)
\* Socket i is the only socket the session has created.
OnlyConnection(i) == \A j \in Conns : j # i => socks[j].fd = "none"

\* C24: on one connection at most one disconnect() returns True: where the
\* reception thread's call returned True and printed the "Connection closed
\* on other end" notice, a caller's call on that connection has not returned
\* True, and the thread's read ended because the peer closed.
C24_OneDisconnectReturnsTrue ==
    \A i \in Conns :
        (OnlyConnection(i) /\ rx[i].disc = "True")
            => /\ ~(/\ caller.ret.op = "disconnect"
                    /\ caller.ret.target = i
                    /\ caller.ret.val = "True")
               /\ rx[i].eof = "peer"


(***************************************************************************)
(* connect() on a fresh session against a server that answers the auth     *)
(* packet with anything: the auth response (id 50, type 2), a packet with  *)
(* id 50 and another type or body, the auth failure (id 0xFFFFFFFF), a     *)
(* packet with another id, or a body that is not UTF-8.  A recv returns    *)
(* what is available but for at most MaxHoldBack bytes.                    *)
(***************************************************************************)
AuthReplies ==
    {RawPacket(PyInt(AUTH_ID), PyInt(SERVERDATA_AUTH_RESPONSE), <<>>, ZeroTail),
     RawPacket(PyInt(AUTH_ID), PyInt(SERVERDATA_RESPONSE_VALUE), <<65>>, ZeroTail),
     RawPacket(PyInt(AUTH_ID), PyInt(7), <<195, 169>>, ZeroTail),
     RawPacket(MaxU32, PyInt(SERVERDATA_AUTH_RESPONSE), <<>>, ZeroTail),
     RawPacket(PyInt(AUTH_ID + 1), PyInt(SERVERDATA_AUTH_RESPONSE), <<>>, ZeroTail),
     RawPacket(<<50, 0>>, PyInt(SERVERDATA_AUTH_RESPONSE), <<>>, ZeroTail),
     RawPacket(PyInt(AUTH_ID), PyInt(SERVERDATA_AUTH_RESPONSE), <<255>>, ZeroTail),
     RawPacket(MaxU32, PyInt(SERVERDATA_AUTH_RESPONSE), <<128>>, ZeroTail)}

\* The server writes a packet once connect() has sent something.
ServerAuthSend(i, pkt) ==
    /\ socks[i].conn = "established"
    /\ socks[i].sent # <<>>
    /\ Len(srvlog[i]) < MaxServerPackets
    /\ socks' = [socks EXCEPT ![i].inbuf = @ \o WireRaw(pkt)]
    /\ srvlog' = [srvlog EXCEPT ![i] = Append(@, pkt)]
    /\ UNCHANGED <<running, responsed_to, sock, rx, caller, returned, objs, sync, main, cloud>>

NextAuth ==
    \/ (NextSocket = 1 /\ ConnectOpen)
    \/ ConnectSendAuth
    \/ ConnectAuthWait
    \/ RxCheck(1)
    \/ \E k \in ShortReads(1) : RxRecvData(1, k)
    \/ RxRecvEof(1)
    \/ RxRecvRaise(1)
    \/ RxDisconnectFail(1)
    \/ RxDisconnectShutdown(1)
    \/ RxDisconnectClose(1)
    \/ \E pkt \in AuthReplies : ServerAuthSend(1, pkt)
    \/ ServerClose(1)
    \/ ServerReset(1)

SpecAuth == Init /\ [][NextAuth]_vars

\* The first k packets the server wrote on socket i have been returned by
\* recv to the last byte, and their bodies are valid UTF-8.
ReceivedWhole(i, k) ==
    /\ rx[i].nread >= Len(WireRawAll(Prefix(srvlog[i], k)))
    /\ \A j \in 1..k : ~Malformed(srvlog[i][j])

DeadBeforeAuth == Terminated(1) /\ ~is_responded(AuthId)

\* C26: on a fresh session, once the reception thread started by connect()
\* has ended (after a zero-length read, a decode error or a failed recv)
\* with no packet with id 50 parsed, it stays so: is_responded(50) stays
\* false, connect() has not returned and does not return, and a caller that
\* is in the auth wait stays in it.
C26_DeadLoopNeverReturns ==
    [][DeadBeforeAuth
         => /\ DeadBeforeAuth'
            /\ 1 \notin returned /\ 1 \notin returned'
            /\ caller.ret.val # "None" \/ caller.ret.op # "connect"
            /\ (caller.pc = "conn_wait" => caller'.pc = "conn_wait")]_vars

\* connect() is in its auth wait, the server has sent an auth failure and a
\* packet that is not UTF-8, and the thread has died decoding the second.
C26_Witness ==
    /\ caller.pc = "conn_wait"
    /\ rx[1].pc = "crashed"
    /\ DecodeFailed(1)
    /\ Len(rx[1].printed) = 1
    /\ ~is_responded(AuthId)
    /\ socks[1].fd = "open"


(***************************************************************************)
(* src/ServerBackup/backup.py, the backup stage of __main__.  A file of    *)
(* the cloud is [cloud_id, n, created_time]: only the files under the root *)
(* folder named Saved_Backup_<n> are kept, n being the number in the name  *)
(* and created_time the createdTime cut to whole seconds.  A run lists the *)
(* files, uploads the Saved folder under the next number, then removes the *)
(* oldest of the listed folders if the limit is exceeded.                  *)
(***************************************************************************)
CloudFile(cloud_id, n, created_time) ==
    [cloud_id |-> cloud_id, n |-> n, created_time |-> created_time]

\* The sets of folders a first run may find: at most limit folders, with
\* different numbers and any creation times.
FoldersUpTo(limit) ==
    UNION {{{CloudFile(n, n, t[n]) : n \in N} : t \in [N -> 0..MaxCreatedTime]} :
              N \in {X \in SUBSET (1..MaxFolderNumber) : Cardinality(X) <= limit}}

InitBackup ==
    /\ running = TRUE
    /\ responsed_to = <<>>
    /\ sock = 0
    /\ socks = [i \in Conns |-> NoSocket]
    /\ rx = [i \in Conns |-> NoThread]
    /\ caller = [pc |-> "idle", calls |-> 0, ret |-> Outcome("none", "None")]
    /\ srvlog = [i \in Conns |-> <<>>]
    /\ returned = {}
    /\ objs = OneSession
    /\ sync = NoSync
    /\ main = NoMain
    /\ \E limit \in 0..MaxBackupLimit : \E fs \in FoldersUpTo(limit) :
          cloud = [NoCloud EXCEPT !.pc = "start", !.MAX_BACKUP = limit,
                                  !.files = fs, !.now = MaxCreatedTime]

MaxOf(S) == CHOOSE m \in S : \A x \in S : x <= m

\* files_in_cloud = cloud.get_all_content(); existing_saved = [...];
\* latest_id = 0 or max([int(f.name.split(CLOUD_FOLDER_PREFIX)[1]) ...])
BackupList ==
    /\ cloud.pc = "start"
    /\ cloud.runs < MaxRuns
    /\ cloud' = [cloud EXCEPT
                    !.pc = "upload",
                    !.existing_saved = cloud.files,
                    !.latest_id = IF cloud.files = {} THEN 0
                                  ELSE MaxOf({f.n : f \in cloud.files}),
                    !.uploaded = 0,
                    !.removed = {}]
    /\ UNCHANGED <<running, responsed_to, sock, socks, rx, caller, srvlog,
                   returned, objs, sync, main>>

\* new_folder_name = CLOUD_FOLDER_PREFIX + str(latest_id + 1);
\* cloud.upload_folder(...): the folder is created at the time of the call,
\* the same second as the last upload or a later one.
BackupUpload ==
    /\ cloud.pc = "upload"
    /\ \E t \in {cloud.now, cloud.now + 1} :
        LET id == MaxFolderNumber + cloud.runs + 1
        IN  cloud' = [cloud EXCEPT
                        !.pc = "check",
                        !.files = @ \cup {CloudFile(id, cloud.latest_id + 1, t)},
                        !.uploaded = id,
                        !.now = t]
    /\ UNCHANGED <<running, responsed_to, sock, socks, rx, caller, srvlog,
                   returned, objs, sync, main>>

\* if len(existing_saved) + 1 <= MAX_BACKUP: "Max backups not exceeded"
BackupKeep ==
    /\ cloud.pc = "check"
    /\ Cardinality(cloud.existing_saved) + 1 <= cloud.MAX_BACKUP
    /\ cloud' = [cloud EXCEPT !.pc = "start", !.runs = @ + 1]
    /\ UNCHANGED <<running, responsed_to, sock, socks, rx, caller, srvlog,
                   returned, objs, sync, main>>

\* min(existing_saved, key=lambda s: s.created_time): the first of the list
\* with the least time; the order of the list is the one of the API's answer.
Oldest(fs) == {f \in fs : \A g \in fs : f.created_time <= g.created_time}

\* else: oldest_folder = min(...); cloud.delete_cloud_file(oldest_folder.cloud_id)
BackupRemoveOldest ==
    /\ cloud.pc = "check"
    /\ Cardinality(cloud.existing_saved) + 1 > cloud.MAX_BACKUP
    /\ \E oldest_folder \in Oldest(cloud.existing_saved) :
          cloud' = [cloud EXCEPT
                      !.pc = "start",
                      !.files = {f \in @ : f.cloud_id # oldest_folder.cloud_id},
                      !.removed = {oldest_folder.cloud_id},
                      !.runs = @ + 1]
    /\ UNCHANGED <<running, responsed_to, sock, socks, rx, caller, srvlog,
                   returned, objs, sync, main>>

\* else: min() of an empty list raises ValueError, which ends the run
BackupMinRaises ==
    /\ cloud.pc = "check"
    /\ Cardinality(cloud.existing_saved) + 1 > cloud.MAX_BACKUP
    /\ cloud.existing_saved = {}
    /\ cloud' = [cloud EXCEPT !.pc = "raised"]
    /\ UNCHANGED <<running, responsed_to, sock, socks, rx, caller, srvlog,
                   returned, objs, sync, main>>

NextBackup ==
    \/ BackupList
    \/ BackupUpload
    \/ BackupKeep
    \/ BackupRemoveOldest
    \/ BackupMinRaises

SpecBackup == InitBackup /\ [][NextBackup]_vars

\* What the last run did, read from its locals.
RunEnded == cloud.pc = "start" /\ cloud.runs > 0
UploadedFile == {f \in cloud.files : f.cloud_id = cloud.uploaded}
RemovedFiles == {f \in cloud.existing_saved : f.cloud_id \in cloud.removed}

\* C22: every run completes, and when it has ended at most MAX_BACKUP
\* folders are left; it removed a folder exactly when the folders it found
\* plus the new one exceeded MAX_BACKUP, and then one folder only, one it had
\* found, with the earliest creation time among those, and not the one it
\* uploaded; the uploaded folder is numbered one above the largest number
\* found (1 if none was found).
C22_BackupRetention ==
    /\ cloud.pc # "raised"
    /\ RunEnded =>
        /\ Cardinality(cloud.files) <= cloud.MAX_BACKUP
        /\ Cardinality(UploadedFile) = 1
        /\ \A f \in UploadedFile :
              \A g \in cloud.existing_saved : f.n > g.n
        /\ \A f \in UploadedFile : f.n = cloud.latest_id + 1
        /\ \A f \in UploadedFile :
              \/ cloud.existing_saved = {} /\ f.n = 1
              \/ \E g \in cloud.existing_saved : f.n = g.n + 1
        /\ (cloud.removed # {})
              <=> (Cardinality(cloud.existing_saved) + 1 > cloud.MAX_BACKUP)
        /\ Cardinality(cloud.removed) <= 1
        /\ cloud.removed # {} =>
              /\ Cardinality(RemovedFiles) = 1
              /\ RemovedFiles \subseteq Oldest(cloud.existing_saved)
              /\ cloud.uploaded \notin cloud.removed
              /\ cloud.files = (cloud.existing_saved \ RemovedFiles) \cup UploadedFile


(***************************************************************************)
(* The cluster shutdown of __main__ (arkrcon.py, command 's').  rcon is    *)
(* the session made at start-up; for every port of                        *)
(* set(shutdown_ports + [port]) the loop takes rcon or a new session as    *)
(* conn, sends saveworld and doexit, polling is_responded after each, and  *)
(* disconnects conn if it is not rcon.  The session variables describe     *)
(* conn; while conn is another session, rcon is kept in main.rcon and its  *)
(* list in objs.lists.  The strings of shutdown_ports are those re.split   *)
(* gives: digits, or the empty string; port is an int.                     *)
(***************************************************************************)
port == 27020
IntPort == "int 27020"
SplitPorts == {"27020", "27021", ""}

\* int(p): the empty string raises ValueError
IntRaises(p) == p = ""
IntOf(p) == IF p = "27021" THEN 27021 ELSE port

RECURSIVE Orders(_)
Orders(S) ==
    IF S = {} THEN {<<>>}
    ELSE UNION {{<<x>> \o rest : rest \in Orders(S \ {x})} : x \in S}

\* for p in set(shutdown_ports + [port]): a set has no duplicates and any order
PortOrders == UNION {Orders(U \cup {IntPort}) : U \in SUBSET SplitPorts}

\* ((60, "saveworld"), (61, "doexit"))
ClusterCmds ==
    <<[id |-> PyInt(SAVEWORLD_ID),
       cmd |-> <<115, 97, 118, 101, 119, 111, 114, 108, 100>>],
      [id |-> PyInt(DOEXIT_ID), cmd |-> <<100, 111, 101, 120, 105, 116>>]>>

InitCluster ==
    /\ running = TRUE
    /\ responsed_to = <<>>
    /\ sock = 0
    /\ socks = [i \in Conns |-> NoSocket]
    /\ rx = [i \in Conns |-> NoThread]
    /\ caller = [pc |-> "idle", calls |-> 0, ret |-> Outcome("none", "None")]
    /\ srvlog = [i \in Conns |-> <<>>]
    /\ returned = {}
    /\ objs = OneSession
    /\ sync = NoSync
    /\ main = [NoMain EXCEPT !.pc = "start"]
    /\ cloud = NoCloud

\* rcon.connect() has returned; 's' and the list of ports are entered
ClusterStart ==
    /\ main.pc = "start"
    /\ caller.pc = "idle" /\ sock \in returned
    /\ \E todo \in PortOrders : main' = [main EXCEPT !.pc = "pick", !.todo = todo]
    /\ UNCHANGED <<running, responsed_to, sock, socks, rx, caller, srvlog,
                   returned, objs, sync, cloud>>

\* The for loop is at its head: at first, after the second reply on rcon, or
\* after conn.disconnect() has returned.
AtLoopHead ==
    \/ main.pc = "pick"
    \/ main.pc = "disc" /\ caller.pc = "idle" /\ caller.ret.op = "disconnect"

\* The session variables as kept while conn is another session.
Saved ==
    [running |-> running, sock |-> sock, socks |-> socks, rx |-> rx,
     caller |-> caller, srvlog |-> srvlog, returned |-> returned,
     ref |-> objs.ref]

\* conn = rcon
TakeDefault(next) ==
    IF main.rcon = <<>>
    THEN /\ main' = next
         /\ UNCHANGED <<running, responsed_to, sock, socks, rx, caller, srvlog,
                        returned, objs>>
    ELSE LET r == main.rcon[1]
         IN  /\ main' = [next EXCEPT !.rcon = <<>>]
             /\ running' = r.running
             /\ sock' = r.sock
             /\ socks' = r.socks
             /\ rx' = r.rx
             /\ caller' = r.caller
             /\ srvlog' = r.srvlog
             /\ returned' = r.returned
             /\ responsed_to' = objs.lists[r.ref]
             /\ objs' = [objs EXCEPT !.ref = r.ref, !.lists[objs.ref] = responsed_to]

\* conn = RCON(ip, int(p), password, printer)
TakeNew(next) ==
    LET r == NewListRef(objs)
        lists == [objs.lists EXCEPT ![objs.ref] = responsed_to]
    IN  /\ main' = [next EXCEPT !.rcon = IF main.rcon = <<>> THEN <<Saved>> ELSE @]
        /\ objs' = [objs EXCEPT !.ref = r, !.lists = lists]
        /\ responsed_to' = lists[r]
        /\ running' = TRUE
        /\ sock' = 0
        /\ socks' = [i \in Conns |-> NoSocket]
        /\ rx' = [i \in Conns |-> NoThread]
        /\ caller' = [pc |-> "idle", calls |-> 0, ret |-> Outcome("none", "None")]
        /\ srvlog' = [i \in Conns |-> <<>>]
        /\ returned' = {}

\* for p in set(...): if int(p) == port: conn = rcon / else: conn = RCON(...)
ClusterPick ==
    /\ AtLoopHead
    /\ main.todo # <<>>
    /\ LET p == Head(main.todo)
           next == [main EXCEPT !.todo = Tail(@), !.p = p, !.k = 1]
       IN  IF IntRaises(p)
           THEN /\ main' = [next EXCEPT !.pc = "raised"]
                /\ UNCHANGED <<running, responsed_to, sock, socks, rx, caller,
                               srvlog, returned, objs>>
           ELSE IF IntOf(p) = port
                THEN TakeDefault([next EXCEPT !.pc = "send"])
                ELSE TakeNew([next EXCEPT !.pc = "connect"])
    /\ UNCHANGED <<sync, cloud>>

\* The loop has taken every port: "Cluster shutdown finished."; break
ClusterFinish ==
    /\ AtLoopHead
    /\ main.todo = <<>>
    /\ TakeDefault([main EXCEPT !.pc = "finished"])
    /\ UNCHANGED <<sync, cloud>>

\* conn.send_cmd(cur_pack_id, cur_cmd), at first once conn.connect() has
\* returned; an exception of send leaves the loop
ClusterSend ==
    /\ caller.pc = "idle"
    /\ \/ main.pc = "send"
       \/ main.pc = "connect" /\ sock \in returned
    /\ Send(build_packet(ClusterCmds[main.k].id, PyInt(SERVERDATA_EXECCOMMAND),
                         ClusterCmds[main.k].cmd),
            "send_cmd", "idle", caller.calls)
    /\ main' = [main EXCEPT !.pc = IF SendRaises THEN "raised" ELSE "wait"]
    /\ UNCHANGED <<running, responsed_to, sock, rx, srvlog, returned, objs,
                   sync, cloud>>

\* while not conn.is_responded(cur_pack_id): ...; then the next command, or
\* if int(p) != port: conn.disconnect()
ClusterWaitNoPoll ==
    /\ main.pc = "wait"
    /\ main' = [main EXCEPT
                  !.pc = IF main.k = 1 THEN "send"
                         ELSE IF IntOf(main.p) = port THEN "pick" ELSE "disc",
                  !.k = IF main.k = 1 THEN 2 ELSE @]
    /\ UNCHANGED <<running, responsed_to, sock, socks, rx, caller, srvlog,
                   returned, objs, sync, cloud>>

ClusterWait ==
    /\ main.pc = "wait"
    /\ is_responded(ClusterCmds[main.k].id)
    /\ main' = [main EXCEPT
                  !.pc = IF main.k = 1 THEN "send"
                         ELSE IF IntOf(main.p) = port THEN "pick" ELSE "disc",
                  !.k = IF main.k = 1 THEN 2 ELSE @]
    /\ UNCHANGED <<running, responsed_to, sock, socks, rx, caller, srvlog,
                   returned, objs, sync, cloud>>

\* conn.connect() and conn.disconnect() are the session's own; each session
\* has one socket, and its server answers each request once.
NextCluster ==
    \/ ClusterStart
    \/ ClusterPick
    \/ ClusterFinish
    \/ ClusterSend
    \/ ClusterWait
    \/ (main.pc \in {"start", "connect"} /\ NextSocket = 1 /\ ConnectOpen)
    \/ (main.pc \in {"start", "connect"} /\ NextSocket = 1 /\ ConnectRefused)
    \/ ConnectSendAuth
    \/ ConnectAuthWait
    \/ (main.pc = "disc" /\ caller.ret.op = "send_cmd" /\ DisconnectFail)
    \/ (main.pc = "disc" /\ caller.ret.op = "send_cmd" /\ DisconnectShutdown)
    \/ DisconnectClose
    \/ RxCheck(1)
    \/ (socks[1].inbuf # <<>> /\ RxRecvData(1, Len(socks[1].inbuf)))
    \/ RxRecvEof(1)
    \/ RxRecvRaise(1)
    \/ RxDisconnectFail(1)
    \/ RxDisconnectShutdown(1)
    \/ RxDisconnectClose(1)
    \/ \E pkt \in Replies : (pkt.id \notin SentIds(1) /\ ServerPut(1, pkt))
    \/ ServerClose(1)

SpecCluster == InitCluster /\ [][NextCluster]_vars


\* Both commands have been answered on conn.
BothResponded ==
    /\ is_responded(ClusterCmds[1].id)
    /\ is_responded(ClusterCmds[2].id)

\* Steps of the loop: send_cmd of command k is called; the loop leaves the
\* body for a port (to the next port or to the end).
ClusterSendStep(k) ==
    /\ main.pc \in {"send", "connect"} /\ main.k = k
    /\ main'.pc \in {"wait", "raised"}
ClusterLeaveStep ==
    /\ main.pc \in {"wait", "disc"}
    /\ main'.pc \in {"pick", "send", "connect", "finished", "raised"}
    /\ main.k = 2

\* C21: in the cluster shutdown, doexit (id 61) is sent on a connection only
\* when is_responded(60) is true on that connection; the loop goes on to the
\* next port, or ends, only when is_responded(61) is true on the connection
\* it leaves; and conn.disconnect() on another session than rcon starts only
\* when both are true on it.
C21_ClusterShutdownOrder ==
    [][/\ ClusterSendStep(2) => is_responded(ClusterCmds[1].id)
       /\ ClusterLeaveStep => BothResponded
       /\ (main.pc = "disc" /\ caller' # caller) => BothResponded
       /\ (main.pc \in {"wait", "disc"} /\ main.k = 2 /\ sock # 0)
            => (IF sock = 0 THEN TRUE
                ELSE (Requested(sock, ClusterCmds[2].id) \/ socks[sock].shut)
                        => is_responded(ClusterCmds[1].id))]_vars

\* The loop has ended after rcon and another session: both commands were
\* answered on rcon and on the other session, which was disconnected.
C21_Witness ==
    /\ main.pc = "finished"
    /\ Len(main.todo) = 0
    /\ BothResponded
    /\ objs.ref = 1
    /\ {ClusterCmds[1].id, ClusterCmds[2].id} \subseteq Range(objs.lists[2])

=============================================================================
